---- MODULE Spec2Model ----
(***************************************************************************)
(* Session store, capability model and background-job coordinator of the   *)
(* denim backend (src/src/state.rs, src/src/auth.rs,                       *)
(* src/src/auth/postgres_store.rs, src/src/routes/*.rs).                   *)
(***************************************************************************)
EXTENDS Integers, Sequences, FiniteSets, TLC

(* ---------------------------------------------------------------- bounds *)
NumProcs == 3
MaxTasks == 2
NumClients == 2
MaxTime == 2
HalfSecond == 500000000
OffsetSecs == 3600
MaxRows == 4
NumSubscribers == 2
MaxPublishes == 3

Procs == 1..NumProcs
Tasks == 1..MaxTasks
Clients == 1..NumClients
Times == 1..MaxTime

VARIABLES
    submit_students_job_token,  \* DenimState.submit_students_job_token (AtomicBool)
    import_students_job,        \* DenimState.import_students_job: 0 = None, t = Some(handle of task t)
    job_lock,                   \* holder of the tokio Mutex around import_students_job, 0 = unlocked
    task,                       \* state of every spawned import task
    pc,                         \* position of every request-handling task
    tok,                        \* the SubmitStudentsJobToken a request owns
    job,                        \* the JoinHandle a request holds in a local
    returned,                   \* history: how many polls returned Some(result) of task t
    cleared,                    \* history: a poll took the handle of task t out of the slot and returned
    dropped,                    \* history: the kinds of token drop that have happened
    req,                        \* the route request in progress: handler, session user, form target
    rstep,                      \* how far that request's handler has run
    sessions,                   \* the sessions table: id -> row (data blob, expiry_date)
    last,                       \* the session-store call that returned last, and what it returned (hit: it found a row to replace or remove)
    saved,                      \* history: the record of the last Ok save, while its row is untouched
    cpc,                        \* position of every create call in progress
    crec,                       \* the session_record of every create call in progress
    created,                    \* history: the id each client's last create persisted under
    perm,                       \* the can / ensure_can call in progress and what it returns
    imp,                        \* one run of the spawned student-import future
    hub                         \* the broadcast channel of SSE events, its receivers, and the history of sends

jobVars == <<submit_students_job_token, import_students_job, job_lock, task, pc, tok, job,
             returned, cleared, dropped>>

routeVars == <<req, rstep>>

storeVars == <<sessions, last, saved>>

createVars == <<cpc, crec, created>>

authVars == <<perm>>

importVars == <<imp>>

sseVars == <<hub>>

vars == <<jobVars, routeVars, storeVars, createVars, authVars, importVars, sseVars>>

notJobVars == <<routeVars, storeVars, createVars, authVars, importVars, sseVars>>

notRouteVars == <<jobVars, storeVars, createVars, authVars, importVars, sseVars>>

(* ------------------------------------------------------ capability model *)
SIGN_SELF_UP == "SIGN_SELF_UP"
SIGN_OTHERS_UP == "SIGN_OTHERS_UP"
VERIFY_ATTENDANCE == "VERIFY_ATTENDANCE"
CRUD_EVENTS == "CRUD_EVENTS"
CRUD_USERS == "CRUD_USERS"
VIEW_PHOTOS == "VIEW_PHOTOS"
IMPORT_CSVS == "IMPORT_CSVS"
EXPORT_CSVS == "EXPORT_CSVS"
CRUD_ADMINS == "CRUD_ADMINS"
VIEW_SENSITIVE_DETAILS == "VIEW_SENSITIVE_DETAILS"
RUN_ONBOARDING == "RUN_ONBOARDING"

\* PermissionsTarget::all(): every flag of the u16 bitset
PermissionsTarget ==
    {SIGN_SELF_UP, SIGN_OTHERS_UP, VERIFY_ATTENDANCE, CRUD_EVENTS, CRUD_USERS,
     VIEW_PHOTOS, IMPORT_CSVS, EXPORT_CSVS, CRUD_ADMINS, VIEW_SENSITIVE_DETAILS,
     RUN_ONBOARDING}

UserKind == {"User", "Student", "Staff", "Admin"}

\* session.user: one of the user kinds, or "None" for a request with no login
Principals == UserKind \cup {"None"}

get_permissions_StudentImports(kind) ==
    CASE kind = "User" -> {VIEW_PHOTOS, VIEW_SENSITIVE_DETAILS}
      [] kind = "Student" -> {VIEW_PHOTOS, SIGN_SELF_UP, IMPORT_CSVS}
      [] kind = "Staff" -> PermissionsTarget \ {IMPORT_CSVS, CRUD_ADMINS}
      [] kind = "Admin" -> PermissionsTarget

\* User::get_permissions (the photo flag is spelt SEE_PHOTOS there)
get_permissions(kind) ==
    CASE kind = "User" -> {VIEW_PHOTOS, VIEW_SENSITIVE_DETAILS}
      [] kind = "Student" -> {VIEW_PHOTOS, SIGN_SELF_UP, VIEW_SENSITIVE_DETAILS}
      [] kind = "Staff" -> PermissionsTarget \ {IMPORT_CSVS, CRUD_ADMINS}
      [] kind = "Admin" -> PermissionsTarget

found_permissions_AsUser(principal) == {VIEW_PHOTOS, VIEW_SENSITIVE_DETAILS}

\* the set ensure_can compares against: empty() without a user
found_permissions(principal) ==
    IF principal = "None" THEN {} ELSE get_permissions(principal)

\* AuthUtilities::ensure_can: TRUE for Ok(()), FALSE for Err(IncorrectPermissions)
ensure_can(principal, needed) == needed \subseteq found_permissions(principal)

\* the fields of the IncorrectPermissions error ensure_can builds (line 41)
IncorrectPermissions(principal, needed) ==
    [needed |-> needed, found |-> found_permissions(principal)]

can_EmptyForNoUser(principal, needed) == needed \subseteq found_permissions(principal)

\* AuthUtilities::can: false without a user, else contains(needed)
can(principal, needed) ==
    IF principal = "None" THEN FALSE ELSE needed \subseteq get_permissions(principal)

\* no can / ensure_can call is in progress
NoAuthCall ==
    [op |-> "none", principal |-> "None", needed |-> {}, ok |-> FALSE,
     err |-> [needed |-> {}, found |-> {}]]

(* ------------------------------------------------- background-job slot *)
\* JoinHandle::is_finished: the task has run to its end, normally or by a panic
is_finished(t) == task[t] \in {"finished", "panicked"}

\* get_submit_students_job_token: a token is built iff swap(true) returned false
TokenGranted_Always(old) == TRUE

TokenGranted(old) == ~old

\* impl Drop for SubmitStudentsJobToken: the flag after the token p owns is dropped
FlagAfterDrop_Never(p) == submit_students_job_token

FlagAfterDrop_Always(p) == FALSE

FlagAfterDrop(p) ==
    IF tok[p] = "unsubmitted" THEN FALSE ELSE submit_students_job_token


(* -------------------------------------------------------- session store *)
\* session ids (Id::to_string(), the primary key of the sessions table)
Ids == {"id_a", "id_b"}

\* session data (the HashMap of a Record)
Data == {"d1", "d2"}

\* time::OffsetDateTime: utc is the unix timestamp of the instant, offset the
\* UTC offset in seconds; the calendar fields show utc + offset
OffsetDateTimes == [utc : Times, nanos : {0, HalfSecond}, offset : {0, OffsetSecs}]

ZeroTime == [utc |-> 0, nanos |-> 0, offset |-> 0]

\* tower_sessions Record
Records == [id : Ids, data : Data, expiry_date : OffsetDateTimes]

NoRecord == [id |-> "none", data |-> "none", expiry_date |-> ZeroTime]

\* a call argument that is only an id
JustId(id) == [id |-> id, data |-> "none", expiry_date |-> ZeroTime]

NoCall == [op |-> "none", io |-> "none", kind |-> "none", arg |-> NoRecord, ret |-> NoRecord, hit |-> FALSE]

\* OffsetDateTime == OffsetDateTime compares the instants
ExpiryEqual(a, b) == a.utc = b.utc /\ a.nanos = b.nanos

\* rmp_serde::to_vec
to_vec(data) == <<"rmp", data>>

\* a blob rmp_serde::from_slice rejects
CorruptBlobValue == <<"corrupt">>

\* rmp_serde::from_slice succeeds
from_slice_ok(blob) == Len(blob) = 2 /\ blob[1] = "rmp"

from_slice(blob) == blob[2]

\* save_session, lines 44-66: the calendar fields of expiry_date (year .. second,
\* nanosecond), which show utc + offset, are handed to from_naive_utc_and_offset
\* as a UTC date-time
to_chrono(odt) ==
    [secs |-> odt.utc + odt.offset, nanos |-> odt.nanos, offset |-> odt.offset]

\* the timestamptz column keeps the instant with microsecond precision
to_timestamptz(dt) == [secs |-> dt.secs, micros |-> dt.nanos \div 1000]

\* load, line 140: OffsetDateTime::from_unix_timestamp(expiry_date.timestamp())
from_unix_timestamp(ts) == [utc |-> ts.secs, nanos |-> 0, offset |-> 0]

Upsert_KeepExisting(table, id, row) ==
    [i \in DOMAIN table \cup {id} |-> IF i \in DOMAIN table THEN table[i] ELSE row]

\* INSERT .. ON CONFLICT (id) DO UPDATE SET data, expiry_date (line 70)
Upsert(table, id, row) ==
    [i \in DOMAIN table \cup {id} |-> IF i = id THEN row ELSE table[i]]

DeleteRow_Truncate(table, id) ==
    IF id \in DOMAIN table THEN <<>> ELSE table

\* DELETE FROM sessions WHERE id = $1
DeleteRow(table, id) == [i \in DOMAIN table \ {id} |-> table[i]]

\* the row save_session writes for a record
RowOf(record) ==
    [data |-> to_vec(record.data),
     expiry_date |-> to_timestamptz(to_chrono(record.expiry_date))]

\* the SSError variant each operation maps a failed get_connection ("connect")
\* or a failed statement ("query") to
ErrorKind(op, io) ==
    CASE io = "connect" -> "Backend"
      [] io = "query" /\ op \in {"create", "save"} -> "Encode"
      [] io = "query" /\ op = "load" -> "Decode"
      [] io = "query" /\ op \in {"delete", "delete_expired"} -> "Backend"

\* what load returns: lines 117-151
LoadKind_CorruptAsNone(table, id, io) ==
    CASE io # "none" -> ErrorKind("load", io)
      [] id \notin DOMAIN table -> "None"
      [] ~from_slice_ok(table[id].data) -> "None"
      [] OTHER -> "Some"

LoadKind(table, id, io) ==
    CASE io # "none" -> ErrorKind("load", io)
      [] id \notin DOMAIN table -> "None"
      [] ~from_slice_ok(table[id].data) -> "Decode"
      [] OTHER -> "Some"

\* the record load builds from the row: lines 136-150
LoadRecord(table, id) ==
    [id |-> id, data |-> from_slice(table[id].data),
     expiry_date |-> from_unix_timestamp(table[id].expiry_date)]

\* the result a finished import future holds: nothing yet
NoResult == [kind |-> "none", errors |-> {}, created |-> {}]

\* no import future has been spawned
NoImport ==
    [pc |-> "idle", batch |-> <<>>, idx |-> 0, txn |-> {}, errors |-> {}, users |-> {},
     archive |-> FALSE, result |-> NoResult]

\* channel(1) in DenimState::new: the number of values the channel retains
SseCapacity == 1

Subscribers == 1..NumSubscribers

\* enum SseEvent (ChangeSignUp without its event_id)
SseEvents == {"CrudEvent", "CrudPerson", "ChangeSignUp"}

\* a Receiver that does not exist (not subscribed, or dropped)
NoReceiver == [live |-> FALSE, next |-> 0, since |-> 0, got |-> <<>>, lagged |-> FALSE]

\* DenimState::new: channel(1), whose first receiver _rx is dropped when new
\* returns. tail: the number of values stored so far; stored: for each stored
\* value the send call it came from (the channel keeps the last SseCapacity of
\* them); calls: history of the send_sse_event calls; rx: the receivers, with
\* next the position they read next, since the number of calls made before they
\* subscribed, got the calls delivered to them, lagged whether they lost values
NewHub ==
    [tail |-> 0, stored |-> <<>>, calls |-> <<>>, rx |-> [r \in Subscribers |-> NoReceiver]]

\* Sender::receiver_count
receiver_count(h) == Cardinality({r \in Subscribers : h.rx[r].live})

\* no route request is in progress
NoRequest ==
    [handler |-> "none", user |-> "None", self |-> FALSE, is_staff |-> FALSE, made |-> "none"]

Init ==
    /\ submit_students_job_token = FALSE
    /\ import_students_job = 0
    /\ job_lock = 0
    /\ task = [t \in Tasks |-> "unspawned"]
    /\ pc = [p \in Procs |-> "idle"]
    /\ tok = [p \in Procs |-> "none"]
    /\ job = [p \in Procs |-> 0]
    /\ returned = [t \in Tasks |-> 0]
    /\ cleared = [t \in Tasks |-> FALSE]
    /\ dropped = {}
    /\ req = NoRequest
    /\ rstep = "none"
    /\ sessions = <<>>
    /\ last = NoCall
    /\ saved = NoRecord
    /\ cpc = [c \in Clients |-> "idle"]
    /\ perm = NoAuthCall
    /\ imp = NoImport
    /\ hub = NewHub
    /\ crec = [c \in Clients |-> NoRecord]
    /\ created = [c \in Clients |-> "none"]

\* put_add_new_students, line 372: ensure_can(IMPORT_CSVS) denies, nothing else runs
PutDenied(p) ==
    /\ pc[p] = "idle"
    /\ \E principal \in Principals : ~ensure_can(principal, {IMPORT_CSVS})
    /\ UNCHANGED vars

\* put_add_new_students, lines 372-383: the capability check passes and the
\* admission flag is swapped to true; without a token the poll view is returned
PutAcquire(p) ==
    /\ pc[p] = "idle"
    /\ \E principal \in Principals : ensure_can(principal, {IMPORT_CSVS})
    /\ submit_students_job_token' = TRUE
    /\ IF TokenGranted(submit_students_job_token)
       THEN /\ tok' = [tok EXCEPT ![p] = "unsubmitted"]
            /\ pc' = [pc EXCEPT ![p] = "put_validate"]
       ELSE /\ tok' = tok
            /\ pc' = [pc EXCEPT ![p] = "put_no_token"]
    /\ UNCHANGED <<import_students_job, job_lock, task, job, returned, cleared, dropped>>
    /\ UNCHANGED notJobVars

RefusedPutNext_Validate == "put_validate"

\* lines 375-382: where the handler goes on without a token: into
\* get_students_import_checker, after its ensure_can
RefusedPutNext == "poll_exists"

\* lines 375-382: without a token the handler returns get_students_import_checker
PutPollView(p) ==
    /\ pc[p] = "put_no_token"
    /\ pc' = [pc EXCEPT ![p] = RefusedPutNext]
    /\ UNCHANGED <<submit_students_job_token, import_students_job, job_lock, task, tok, job,
                   returned, cleared, dropped>>
    /\ UNCHANGED notJobVars

\* the token (and any JoinHandle the request still holds) goes out of scope
DropRequest(p) ==
    /\ submit_students_job_token' = FlagAfterDrop(p)
    /\ tok' = [tok EXCEPT ![p] = "none"]
    /\ job' = [job EXCEPT ![p] = 0]
    /\ pc' = [pc EXCEPT ![p] = "idle"]
    /\ dropped' = dropped \cup {tok[p]}
    /\ UNCHANGED <<import_students_job, job_lock, task, returned, cleared>>
    /\ UNCHANGED notJobVars

\* lines 388-409, 441, 457, 489, 496, 503-507: an error leaves through `?`
PutErrorPropagated(p) ==
    /\ pc[p] = "put_validate"
    /\ DropRequest(p)

\* lines 476-494: missing teachers or CSV syntax errors return Ok(errors_list)
PutEarlyReturn(p) ==
    /\ pc[p] = "put_validate"
    /\ DropRequest(p)

\* the client disconnects while the handler waits at one of the awaits of
\* lines 388-496: the handler future is dropped
PutCancelled(p) ==
    /\ pc[p] = "put_validate"
    /\ DropRequest(p)

\* lines 517-626: tokio::task::spawn starts the import task at once
PutSpawn(p) ==
    /\ pc[p] = "put_validate"
    /\ \E t \in Tasks :
        /\ task[t] = "unspawned"
        /\ \A u \in Tasks : u < t => task[u] # "unspawned"
        /\ task' = [task EXCEPT ![t] = "running"]
        /\ job' = [job EXCEPT ![p] = t]
    /\ pc' = [pc EXCEPT ![p] = "submit_lock"]
    /\ UNCHANGED <<submit_students_job_token, import_students_job, job_lock, tok, returned, cleared, dropped>>
    /\ UNCHANGED notJobVars

\* submit_job, line 43: import_students_job.lock().await is granted
SubmitLock(p) ==
    /\ pc[p] = "submit_lock"
    /\ job_lock = 0
    /\ job_lock' = p
    /\ pc' = [pc EXCEPT ![p] = "submit_store"]
    /\ UNCHANGED <<submit_students_job_token, import_students_job, task, tok, job, returned, cleared, dropped>>
    /\ UNCHANGED notJobVars

\* submit_job, line 43: the lock is held by a poller, the future is pending and
\* the client disconnects: the token and the JoinHandle are dropped, the spawned
\* task is detached and keeps running
SubmitCancelled(p) ==
    /\ pc[p] = "submit_lock"
    /\ job_lock # 0
    /\ DropRequest(p)

\* submit_job, line 43: the handle is stored and the guard released
SubmitStore(p) ==
    /\ pc[p] = "submit_store"
    /\ import_students_job' = job[p]
    /\ job_lock' = 0
    /\ job' = [job EXCEPT ![p] = 0]
    /\ pc' = [pc EXCEPT ![p] = "submit_mark"]
    /\ UNCHANGED <<submit_students_job_token, task, tok, returned, cleared, dropped>>
    /\ UNCHANGED notJobVars

\* submit_job, line 44: has_submitted = true
SubmitMark(p) ==
    /\ pc[p] = "submit_mark"
    /\ tok' = [tok EXCEPT ![p] = "submitted"]
    /\ pc' = [pc EXCEPT ![p] = "submit_drop"]
    /\ UNCHANGED <<submit_students_job_token, import_students_job, job_lock, task, job, returned, cleared, dropped>>
    /\ UNCHANGED notJobVars

\* submit_job, line 45: self is dropped; the handler goes on to the poll view
\* (import_export.rs lines 628-636)
SubmitDrop(p) ==
    /\ pc[p] = "submit_drop"
    /\ submit_students_job_token' = FlagAfterDrop(p)
    /\ tok' = [tok EXCEPT ![p] = "none"]
    /\ pc' = [pc EXCEPT ![p] = "poll_exists"]
    /\ dropped' = dropped \cup {tok[p]}
    /\ UNCHANGED <<import_students_job, job_lock, task, job, returned, cleared>>
    /\ UNCHANGED notJobVars

\* get_students_import_checker, line 649: the capability check denies
PollDenied(p) ==
    /\ pc[p] = "idle"
    /\ \E principal \in Principals : ~ensure_can(principal, {IMPORT_CSVS})
    /\ UNCHANGED vars

\* get_students_import_checker, line 649: the capability check passes
PollStart(p) ==
    /\ pc[p] = "idle"
    /\ \E principal \in Principals : ensure_can(principal, {IMPORT_CSVS})
    /\ pc' = [pc EXCEPT ![p] = "poll_exists"]
    /\ UNCHANGED <<submit_students_job_token, import_students_job, job_lock, task, tok, job, returned, cleared, dropped>>
    /\ UNCHANGED notJobVars

\* lines 651-657: the flag is clear, "No Import Job Exists"
PollNoJob(p) ==
    /\ pc[p] = "poll_exists"
    /\ ~submit_students_job_token
    /\ pc' = [pc EXCEPT ![p] = "idle"]
    /\ UNCHANGED <<submit_students_job_token, import_students_job, job_lock, task, tok, job, returned, cleared, dropped>>
    /\ UNCHANGED notJobVars

\* lines 651, 659: the flag is set, take_import_students_job_result is called
PollEnter(p) ==
    /\ pc[p] = "poll_exists"
    /\ submit_students_job_token
    /\ pc' = [pc EXCEPT ![p] = "take_lock"]
    /\ UNCHANGED <<submit_students_job_token, import_students_job, job_lock, task, tok, job, returned, cleared, dropped>>
    /\ UNCHANGED notJobVars

\* take_import_students_job_result, line 79: the lock is granted
TakeLock(p) ==
    /\ pc[p] = "take_lock"
    /\ job_lock = 0
    /\ job_lock' = p
    /\ pc' = [pc EXCEPT ![p] = "take_check"]
    /\ UNCHANGED <<submit_students_job_token, import_students_job, task, tok, job, returned, cleared, dropped>>
    /\ UNCHANGED notJobVars

\* line 79: the poll request is dropped while it waits for the lock
TakeCancelled(p) ==
    /\ pc[p] = "take_lock"
    /\ job_lock # 0
    /\ pc' = [pc EXCEPT ![p] = "idle"]
    /\ UNCHANGED <<submit_students_job_token, import_students_job, job_lock, task, tok, job, returned, cleared, dropped>>
    /\ UNCHANGED notJobVars

\* lines 81-89 and 95-97: with the lock held, a finished handle is taken out of
\* the slot; an absent or running one is left and None is returned
TakeCheck(p) ==
    /\ pc[p] = "take_check"
    /\ job_lock' = 0
    /\ IF import_students_job # 0 /\ is_finished(import_students_job)
       THEN /\ job' = [job EXCEPT ![p] = import_students_job]
            /\ import_students_job' = 0
            /\ pc' = [pc EXCEPT ![p] = "take_clear"]
       ELSE /\ UNCHANGED <<job, import_students_job>>
            /\ pc' = [pc EXCEPT ![p] = "idle"]
    /\ UNCHANGED <<submit_students_job_token, task, tok, returned, cleared, dropped>>
    /\ UNCHANGED notJobVars

\* lines 91-92: submit_students_job_token.store(false)
TakeClear(p) ==
    /\ pc[p] = "take_clear"
    /\ submit_students_job_token' = FALSE
    /\ pc' = [pc EXCEPT ![p] = "take_await"]
    /\ UNCHANGED <<import_students_job, job_lock, task, tok, job, returned, cleared, dropped>>
    /\ UNCHANGED notJobVars

\* line 94: job.await.ok(): Some(result) of a task that ran to its end, None for
\* a JoinError
TakeAwait(p) ==
    /\ pc[p] = "take_await"
    /\ returned' = [returned EXCEPT ![job[p]] =
                        IF task[job[p]] = "finished" THEN @ + 1 ELSE @]
    /\ cleared' = [cleared EXCEPT ![job[p]] = TRUE]
    /\ job' = [job EXCEPT ![p] = 0]
    /\ pc' = [pc EXCEPT ![p] = "idle"]
    /\ UNCHANGED <<submit_students_job_token, import_students_job, job_lock, task, tok, dropped>>
    /\ UNCHANGED notJobVars

\* the spawned future of import_export.rs lines 517-626 returns a DenimResult
TaskFinish(t) ==
    /\ task[t] = "running"
    /\ task' = [task EXCEPT ![t] = "finished"]
    /\ UNCHANGED <<submit_students_job_token, import_students_job, job_lock, pc, tok, job, returned, cleared, dropped>>
    /\ UNCHANGED notJobVars

\* the spawned future panics (the expect calls of lines 560-582): a JoinError
TaskPanic(t) ==
    /\ task[t] = "running"
    /\ task' = [task EXCEPT ![t] = "panicked"]
    /\ UNCHANGED <<submit_students_job_token, import_students_job, job_lock, pc, tok, job, returned, cleared, dropped>>
    /\ UNCHANGED notJobVars

NextJob ==
    \/ \E p \in Procs : PutDenied(p)
    \/ \E p \in Procs : PutAcquire(p)
    \/ \E p \in Procs : PutPollView(p)
    \/ \E p \in Procs : PutErrorPropagated(p)
    \/ \E p \in Procs : PutEarlyReturn(p)
    \/ \E p \in Procs : PutCancelled(p)
    \/ \E p \in Procs : PutSpawn(p)
    \/ \E p \in Procs : SubmitLock(p)
    \/ \E p \in Procs : SubmitCancelled(p)
    \/ \E p \in Procs : SubmitStore(p)
    \/ \E p \in Procs : SubmitMark(p)
    \/ \E p \in Procs : SubmitDrop(p)
    \/ \E p \in Procs : PollDenied(p)
    \/ \E p \in Procs : PollStart(p)
    \/ \E p \in Procs : PollNoJob(p)
    \/ \E p \in Procs : PollEnter(p)
    \/ \E p \in Procs : TakeLock(p)
    \/ \E p \in Procs : TakeCancelled(p)
    \/ \E p \in Procs : TakeCheck(p)
    \/ \E p \in Procs : TakeClear(p)
    \/ \E p \in Procs : TakeAwait(p)
    \/ \E t \in Tasks : TaskFinish(t)
    \/ \E t \in Tasks : TaskPanic(t)

SpecJob == Init /\ [][NextJob]_vars

(* ------------------------------------------------------ route handlers *)
\* the handlers of routes/*.rs that write to the database
Handlers ==
    {"put_new_event", "delete_event", "internal_put_new_staff_or_dev",
     "internal_put_new_student", "delete_person", "put_fully_import_events",
     "put_add_new_students", "internal_post_sign_others_up",
     "internal_post_toggle_self_sign_up", "internal_post_verify",
     "internal_post_photos", "internal_post_profile_edit_first_name",
     "internal_post_profile_edit_pref_name", "internal_post_profile_edit_surname",
     "internal_post_profile_edit_email", "internal_post_profile_edit_password"}

\* whether the handler calls ensure_can before its first database statement
RouteChecks(h) == h # "put_new_event"

\* routes/all_events.rs: delete_event gates on CRUD_EVENTS; put_new_event has
\* no ensure_can call
AllEventsGate(h) ==
    IF h = "delete_event" THEN {CRUD_EVENTS} ELSE {}

\* routes/all_people.rs: the three handlers gate on CRUD_USERS
AllPeopleGate(h) == {CRUD_USERS}

\* routes/import_export.rs: the two imports gate on IMPORT_CSVS
ImportExportGate(h) == {IMPORT_CSVS}

\* routes/event_in_detail.rs (self: the form names the session's own user)
EventInDetailGate(h, self) ==
    CASE h = "internal_post_sign_others_up" ->
            IF self THEN {SIGN_SELF_UP} ELSE {SIGN_OTHERS_UP}
      [] h = "internal_post_toggle_self_sign_up" -> {SIGN_SELF_UP}
      [] h = "internal_post_verify" -> {VERIFY_ATTENDANCE}
      [] h = "internal_post_photos" -> {VIEW_PHOTOS}

\* routes/profile.rs: every edit handler gates on CRUD_USERS
ProfileGate(h) == {CRUD_USERS}

\* the capability the handler passes to ensure_can
RouteGate(h, self) ==
    CASE h \in {"put_new_event", "delete_event"} -> AllEventsGate(h)
      [] h \in {"internal_put_new_staff_or_dev", "internal_put_new_student",
                "delete_person"} -> AllPeopleGate(h)
      [] h \in {"put_fully_import_events", "put_add_new_students"} -> ImportExportGate(h)
      [] h \in {"internal_post_sign_others_up", "internal_post_toggle_self_sign_up",
                "internal_post_verify", "internal_post_photos"} ->
            EventInDetailGate(h, self)
      [] OTHER -> ProfileGate(h)

\* the capability the mutation needs: the one the handler's own gate names; for
\* put_new_event the one its form (internal_get_add_events_form) and
\* delete_event are gated on
RouteRequired(h, self) ==
    IF h = "put_new_event" THEN {CRUD_EVENTS} ELSE RouteGate(h, self)

\* whether the handler calls send_sse_event after its write
RoutePublishes(h) ==
    h \notin {"internal_post_photos", "internal_post_profile_edit_password",
              "put_add_new_students"}

\* a request reaches the handler with the session the auth layer resolved
\* form.is_staff: the field NewStaffOrDevForm carries; other forms have none
FormIsStaff(h) == IF h = "internal_put_new_staff_or_dev" THEN BOOLEAN ELSE {FALSE}

\* internal_put_new_staff_or_dev:
\*   let is_staff = form.is_staff && session.can(PermissionsTarget::CRUD_ADMINS);
\*   let user_kind = if is_staff { AddUserKind::Staff } else { AddUserKind::Dev };
new_user_kind(form_is_staff, user) ==
    IF form_is_staff /\ can(user, {CRUD_ADMINS}) THEN "Staff" ELSE "Dev"

\* a request arrives: the handler, the session's user, whether it targets the
\* caller's own record, and the form's is_staff field
RouteBegin(h, user, self, is_staff) ==
    /\ rstep = "none"
    /\ req' = [handler |-> h, user |-> user, self |-> self, is_staff |-> is_staff,
               made |-> "none"]
    /\ rstep' = "entered"
    /\ UNCHANGED notRouteVars

\* session.ensure_can(..)? returns Err(IncorrectPermissions)
RouteDenied ==
    /\ rstep = "entered"
    /\ RouteChecks(req.handler)
    /\ ~ensure_can(req.user, RouteGate(req.handler, req.self))
    /\ req' = NoRequest
    /\ rstep' = "none"
    /\ UNCHANGED notRouteVars

\* the handler's database statement (or transaction commit) returns Ok
RouteWrite ==
    /\ rstep = "entered"
    /\ RouteChecks(req.handler) => ensure_can(req.user, RouteGate(req.handler, req.self))
    /\ rstep' = "written"
    /\ req' = [req EXCEPT !.made = IF req.handler = "internal_put_new_staff_or_dev"
                                     THEN new_user_kind(req.is_staff, req.user)
                                     ELSE "none"]
    /\ UNCHANGED notRouteVars

\* a parse error, a database error or a rolled-back transaction leaves through `?`
RouteFail ==
    /\ rstep = "entered"
    /\ RouteChecks(req.handler) => ensure_can(req.user, RouteGate(req.handler, req.self))
    /\ req' = NoRequest
    /\ rstep' = "none"
    /\ UNCHANGED notRouteVars

\* the handlers with a fallible await between their write and send_sse_event:
\* delete_event renders the form (all_events.rs line 151), the profile edits
\* re-read the user (profile.rs lines 446, 505, 557, 619)
RouteReadsBeforePublish(h) ==
    h \in {"delete_event", "internal_post_profile_edit_first_name",
           "internal_post_profile_edit_pref_name", "internal_post_profile_edit_surname",
           "internal_post_profile_edit_email"}

\* the read between the write and send_sse_event fails and leaves through `?`
RouteFailAfterWrite ==
    /\ rstep = "written"
    /\ RouteReadsBeforePublish(req.handler)
    /\ req' = NoRequest
    /\ rstep' = "none"
    /\ UNCHANGED notRouteVars

\* state.send_sse_event(..) after the write
RoutePublish ==
    /\ rstep = "written"
    /\ RoutePublishes(req.handler)
    /\ rstep' = "published"
    /\ req' = req
    /\ UNCHANGED notRouteVars

\* the handler renders its response
RouteReturn ==
    /\ \/ rstep = "published"
       \/ rstep = "written" /\ ~RoutePublishes(req.handler)
    /\ req' = NoRequest
    /\ rstep' = "none"
    /\ UNCHANGED notRouteVars

NextRoutes ==
    \/ \E h \in Handlers, user \in Principals, self \in BOOLEAN :
          \E is_staff \in FormIsStaff(h) : RouteBegin(h, user, self, is_staff)
    \/ RouteDenied
    \/ RouteWrite
    \/ RouteFail
    \/ RouteFailAfterWrite
    \/ RoutePublish
    \/ RouteReturn

SpecRoutes == Init /\ [][NextRoutes]_vars

(* ------------------------------------------------ session store: calls *)
IoOutcomes == {"none", "connect", "query"}

\* save, lines 103-115
Save(record, io) ==
    /\ IF io = "none"
       THEN /\ sessions' = Upsert(sessions, record.id, RowOf(record))
            /\ saved' = record
            /\ last' = [op |-> "save", io |-> io, kind |-> "Ok", arg |-> record, ret |-> NoRecord,
                        hit |-> record.id \in DOMAIN sessions]
       ELSE /\ UNCHANGED <<sessions, saved>>
            /\ last' = [op |-> "save", io |-> io, kind |-> ErrorKind("save", io),
                        arg |-> JustId(record.id), ret |-> NoRecord, hit |-> FALSE]
    /\ UNCHANGED <<jobVars, routeVars, createVars, authVars, importVars, sseVars>>

\* load, lines 117-151
Load(id, io) ==
    /\ last' = [op |-> "load", io |-> io, kind |-> LoadKind(sessions, id, io),
                arg |-> JustId(id),
                ret |-> IF LoadKind(sessions, id, io) = "Some"
                        THEN LoadRecord(sessions, id) ELSE NoRecord,
                hit |-> FALSE]
    /\ UNCHANGED <<sessions, saved>>
    /\ UNCHANGED <<jobVars, routeVars, createVars, authVars, importVars, sseVars>>

\* delete, lines 153-167
Delete(id, io) ==
    /\ IF io = "none"
       THEN /\ sessions' = DeleteRow(sessions, id)
            /\ saved' = IF saved.id = id THEN NoRecord ELSE saved
            /\ last' = [op |-> "delete", io |-> io, kind |-> "Ok", arg |-> JustId(id), ret |-> NoRecord,
                        hit |-> id \in DOMAIN sessions]
       ELSE /\ UNCHANGED <<sessions, saved>>
            /\ last' = [op |-> "delete", io |-> io, kind |-> ErrorKind("delete", io),
                        arg |-> JustId(id), ret |-> NoRecord, hit |-> FALSE]
    /\ UNCHANGED <<jobVars, routeVars, createVars, authVars, importVars, sseVars>>

TimestampBefore_OrEqual(a, b) ==
    a.secs < b.secs \/ (a.secs = b.secs /\ a.micros <= b.micros)

\* timestamptz < timestamptz
TimestampBefore(a, b) ==
    a.secs < b.secs \/ (a.secs = b.secs /\ a.micros < b.micros)

\* the rows DELETE FROM sessions WHERE expiry_date < now() keeps
Unexpired(table, now) ==
    [i \in {j \in DOMAIN table : ~TimestampBefore(table[j].expiry_date, now)} |-> table[i]]

\* delete_expired, lines 172-185
DeleteExpired(now, io) ==
    /\ IF io = "none"
       THEN /\ sessions' = Unexpired(sessions, now)
            /\ saved' = IF saved.id \in DOMAIN Unexpired(sessions, now) THEN saved ELSE NoRecord
            /\ last' = [op |-> "delete_expired", io |-> io, kind |-> "Ok",
                        arg |-> NoRecord, ret |-> NoRecord,
                        hit |-> Unexpired(sessions, now) # sessions]
       ELSE /\ UNCHANGED <<sessions, saved>>
            /\ last' = [op |-> "delete_expired", io |-> io,
                        kind |-> ErrorKind("delete_expired", io),
                        arg |-> NoRecord, ret |-> NoRecord, hit |-> FALSE]
    /\ UNCHANGED <<jobVars, routeVars, createVars, authVars, importVars, sseVars>>

\* the blob of a row stops being decodable (written by another release, or
\* damaged in the database): the case lines 137-138 of load handle
CorruptBlob(id) ==
    /\ id \in DOMAIN sessions
    /\ sessions[id].data # CorruptBlobValue
    /\ sessions' = [sessions EXCEPT ![id].data = CorruptBlobValue]
    /\ saved' = IF saved.id = id THEN NoRecord ELSE saved
    /\ last' = NoCall
    /\ UNCHANGED <<jobVars, routeVars, createVars, authVars, importVars, sseVars>>

\* the readings of now() that fall before, on and after the stored expiries
NowTimes ==
    [secs : (1..MaxTime) \cup {OffsetSecs + t : t \in 1..(MaxTime + 1)},
     micros : {0, HalfSecond \div 1000}]

\* a failed call returns before it uses more of its input than the id: one
\* record per id and one reading of now() stand for all of them
FailedSaveRecords ==
    {r \in Records : r.data = "d1" /\ r.expiry_date = [utc |-> 1, nanos |-> 0, offset |-> 0]}

FailedNow == [secs |-> 1, micros |-> 0]

NextStore ==
    \/ \E record \in Records : Save(record, "none")
    \/ \E record \in FailedSaveRecords, io \in IoOutcomes \ {"none"} : Save(record, io)
    \/ \E id \in Ids, io \in IoOutcomes : Load(id, io)
    \/ \E id \in Ids, io \in IoOutcomes : Delete(id, io)
    \/ \E now \in NowTimes : DeleteExpired(now, "none")
    \/ \E io \in IoOutcomes \ {"none"} : DeleteExpired(FailedNow, io)
    \/ \E id \in Ids : CorruptBlob(id)

SpecStore == Init /\ [][NextStore]_vars

(* ----------------------------------------------- session store: create *)
\* the records tower-sessions hands to create: a fresh random id, the session
\* data, and an expiry of now_utc() + the inactivity period
CreateRecords ==
    {r \in Records : r.expiry_date = [utc |-> MaxTime, nanos |-> HalfSecond, offset |-> 0]}

\* create, lines 81-85: get_connection
CreateBegin(c, record, io) ==
    /\ cpc[c] = "idle"
    /\ io \in {"none", "connect"}
    /\ IF io = "none"
       THEN /\ cpc' = [cpc EXCEPT ![c] = "id_exists"]
            /\ crec' = [crec EXCEPT ![c] = record]
            /\ last' = last
       ELSE /\ UNCHANGED <<cpc, crec>>
            /\ last' = [op |-> "create", io |-> io, kind |-> ErrorKind("create", io),
                        arg |-> JustId(record.id), ret |-> NoRecord, hit |-> FALSE]
    /\ UNCHANGED <<sessions, saved, created>>
    /\ UNCHANGED <<jobVars, routeVars, authVars, importVars, sseVars>>

\* create, lines 87-92: one turn of the while loop: the id_exists query, and
\* session_record.id = Id::default() when the id is taken
CreateIdExists(c, io) ==
    /\ cpc[c] = "id_exists"
    /\ io \in {"none", "query"}
    /\ IF io = "query"
       THEN /\ cpc' = [cpc EXCEPT ![c] = "idle"]
            /\ crec' = [crec EXCEPT ![c] = NoRecord]
            /\ last' = [op |-> "create", io |-> io, kind |-> ErrorKind("create", io),
                        arg |-> JustId(crec[c].id), ret |-> NoRecord, hit |-> FALSE]
       ELSE /\ last' = last
            /\ IF crec[c].id \in DOMAIN sessions
               THEN /\ \E id \in Ids : crec' = [crec EXCEPT ![c].id = id]
                    /\ cpc' = cpc
               ELSE /\ cpc' = [cpc EXCEPT ![c] = "insert"]
                    /\ crec' = crec
    /\ UNCHANGED <<sessions, saved, created>>
    /\ UNCHANGED <<jobVars, routeVars, authVars, importVars, sseVars>>

\* create, lines 96-100: save_session writes the row
CreateInsert(c, io) ==
    /\ cpc[c] = "insert"
    /\ io \in {"none", "query"}
    /\ IF io = "none"
       THEN /\ sessions' = Upsert(sessions, crec[c].id, RowOf(crec[c]))
            /\ saved' = IF saved.id = crec[c].id THEN NoRecord ELSE saved
            /\ created' = [created EXCEPT ![c] = crec[c].id]
            /\ last' = [op |-> "create", io |-> io, kind |-> "Ok", arg |-> crec[c], ret |-> NoRecord, hit |-> FALSE]
       ELSE /\ UNCHANGED <<sessions, saved, created>>
            /\ last' = [op |-> "create", io |-> io, kind |-> ErrorKind("create", io),
                        arg |-> JustId(crec[c].id), ret |-> NoRecord, hit |-> FALSE]
    /\ cpc' = [cpc EXCEPT ![c] = "idle"]
    /\ crec' = [crec EXCEPT ![c] = NoRecord]
    /\ UNCHANGED <<jobVars, routeVars, authVars, importVars, sseVars>>

NextCreate ==
    \/ \E c \in Clients, record \in CreateRecords, io \in IoOutcomes : CreateBegin(c, record, io)
    \/ \E c \in Clients, io \in IoOutcomes : CreateIdExists(c, io)
    \/ \E c \in Clients, io \in IoOutcomes : CreateInsert(c, io)

SpecCreate == Init /\ [][NextCreate]_vars

(* ------------------------------------------------ capability checks *)
\* session.can(needed) is called and returns its bool
CallCan(principal, needed) ==
    /\ perm.op = "none"
    /\ perm' = [op |-> "can", principal |-> principal, needed |-> needed,
                ok |-> can(principal, needed), err |-> NoAuthCall.err]
    /\ UNCHANGED <<jobVars, routeVars, storeVars, createVars, importVars, sseVars>>

\* session.ensure_can(needed) is called and returns Ok(()) or the error
CallEnsureCan(principal, needed) ==
    /\ perm.op = "none"
    /\ perm' = [op |-> "ensure_can", principal |-> principal, needed |-> needed,
                ok |-> ensure_can(principal, needed),
                err |-> IF ensure_can(principal, needed)
                        THEN NoAuthCall.err
                        ELSE IncorrectPermissions(principal, needed)]
    /\ UNCHANGED <<jobVars, routeVars, storeVars, createVars, importVars, sseVars>>

\* the caller has used the result
AuthReturn ==
    /\ perm.op # "none"
    /\ perm' = NoAuthCall
    /\ UNCHANGED <<jobVars, routeVars, storeVars, createVars, importVars, sseVars>>

NextAuth ==
    \/ \E principal \in Principals, needed \in SUBSET PermissionsTarget :
          CallCan(principal, needed)
    \/ \E principal \in Principals, needed \in SUBSET PermissionsTarget :
          CallEnsureCan(principal, needed)
    \/ AuthReturn

SpecAuth == Init /\ [][NextAuth]_vars

(* ------------------------------------------- the spawned import future *)
\* students_to_add: each row is one whose insert_into_database succeeds ("good")
\* or returns an error ("bad")
Batches == UNION {[1..n -> {"good", "bad"}] : n \in 0..MaxRows}

AfterLoopWithErrors_Commit(i) ==
    [i EXCEPT !.pc = "done", !.users = i.txn, !.txn = {},
              !.result = [kind |-> "Ok", errors |-> i.errors, created |-> i.txn]]

\* what the future does once the for loop is over and errors is not empty
\* (lines 563-568): it returns the list of errors; the transaction is dropped
\* without commit, which rolls it back
AfterLoopWithErrors(i) ==
    [i EXCEPT !.pc = "done", !.txn = {},
              !.result = [kind |-> "Ok", errors |-> i.errors, created |-> {}]]

\* lines 517-519: the future is spawned with the rows to add
ImportSpawn(batch) ==
    /\ imp.pc = "idle"
    /\ imp' = [NoImport EXCEPT !.pc = "begin", !.batch = batch]
    /\ UNCHANGED <<jobVars, routeVars, storeVars, createVars, authVars, sseVars>>

\* line 522: state.get_transaction().await?
ImportBegin(ok) ==
    /\ imp.pc = "begin"
    /\ imp' = IF ok
              THEN [imp EXCEPT !.pc = "rows", !.idx = 1]
              ELSE [imp EXCEPT !.pc = "done", !.result.kind = "Err"]
    /\ UNCHANGED <<jobVars, routeVars, storeVars, createVars, authVars, sseVars>>

\* lines 524-561: one turn of the for loop: insert_into_database in the
\* transaction; an error is pushed to errors and the loop continues
ImportRow ==
    /\ imp.pc = "rows"
    /\ imp.idx <= Len(imp.batch)
    /\ imp' = IF imp.batch[imp.idx] = "good"
              THEN [imp EXCEPT !.txn = @ \cup {imp.idx}, !.idx = @ + 1]
              ELSE [imp EXCEPT !.errors = @ \cup {imp.idx}, !.idx = @ + 1]
    /\ UNCHANGED <<jobVars, routeVars, storeVars, createVars, authVars, sseVars>>

\* lines 563-568: errors is not empty after the loop
ImportErrors ==
    /\ imp.pc = "rows"
    /\ imp.idx > Len(imp.batch)
    /\ imp.errors # {}
    /\ imp' = AfterLoopWithErrors(imp)
    /\ UNCHANGED <<jobVars, routeVars, storeVars, createVars, authVars, sseVars>>

\* lines 570-606: the zip is built and uploaded, the download link presigned
\* (archive: both have succeeded); a failure leaves through `?` and the
\* transaction is rolled back
ImportUpload(ok) ==
    /\ imp.pc = "rows"
    /\ imp.idx > Len(imp.batch)
    /\ imp.errors = {}
    /\ imp' = IF ok
              THEN [imp EXCEPT !.pc = "commit", !.archive = TRUE]
              ELSE [imp EXCEPT !.pc = "done", !.txn = {}, !.result.kind = "Err"]
    /\ UNCHANGED <<jobVars, routeVars, storeVars, createVars, authVars, sseVars>>

\* lines 608-620: pg_connection.commit() and the report of the accounts created
ImportCommit(ok) ==
    /\ imp.pc = "commit"
    /\ imp' = IF ok
              THEN [imp EXCEPT !.pc = "done", !.users = imp.txn, !.txn = {},
                               !.result = [kind |-> "Ok", errors |-> {}, created |-> imp.txn]]
              ELSE [imp EXCEPT !.pc = "done", !.txn = {}, !.result.kind = "Err"]
    /\ UNCHANGED <<jobVars, routeVars, storeVars, createVars, authVars, sseVars>>

\* a poll has taken the result of the finished future
ImportTaken ==
    /\ imp.pc = "done"
    /\ imp' = NoImport
    /\ UNCHANGED <<jobVars, routeVars, storeVars, createVars, authVars, sseVars>>

NextImport ==
    \/ \E batch \in Batches : ImportSpawn(batch)
    \/ \E ok \in BOOLEAN : ImportBegin(ok)
    \/ ImportRow
    \/ ImportErrors
    \/ \E ok \in BOOLEAN : ImportUpload(ok)
    \/ \E ok \in BOOLEAN : ImportCommit(ok)
    \/ ImportTaken

SpecImport == Init /\ [][NextImport]_vars

(* ------------------------------------------------------- SSE broadcast *)
SubscribePos_Oldest(h) == IF h.tail > SseCapacity THEN h.tail - SseCapacity ELSE 0

\* Sender::subscribe: the new receiver reads from the tail on
SubscribePos(h) == h.tail

SendStores_Always(h) == TRUE

\* Sender::send: the value is stored unless there is no receiver, when send
\* returns Err(SendError), which send_sse_event discards (let _ =)
SendStores(h) == receiver_count(h) > 0

SendReady_Backpressure(h) ==
    \A r \in Subscribers : h.rx[r].live => h.rx[r].next + SseCapacity > h.tail

\* Sender::send is synchronous: it never waits for a receiver
SendReady(h) == TRUE

LagPos_Tail(h) == h.tail

\* Receiver::recv after Lagged: the oldest value the channel still retains
LagPos(h) == h.tail - SseCapacity

NextAfterDeliver_Same(next) == next

\* Receiver::recv: the receiver moves on by one value
NextAfterDeliver(next) == next + 1

\* sse_feed, line 36: BroadcastStream::new(state.subscribe_to_sse_feed())
SseSubscribe(r) ==
    /\ ~hub.rx[r].live
    /\ hub' = [hub EXCEPT !.rx[r] =
                  [live |-> TRUE, next |-> SubscribePos(hub), since |-> Len(hub.calls),
                   got |-> <<>>, lagged |-> FALSE]]
    /\ UNCHANGED <<jobVars, routeVars, storeVars, createVars, authVars, importVars>>

\* the client disconnects: the stream and its Receiver are dropped
SseUnsubscribe(r) ==
    /\ hub.rx[r].live
    /\ hub' = [hub EXCEPT !.rx[r] = NoReceiver]
    /\ UNCHANGED <<jobVars, routeVars, storeVars, createVars, authVars, importVars>>

\* send_sse_event(event), lines 161-163; the channel treats every event alike,
\* so the history names a call by its number
send_sse_event(event) ==
    /\ Len(hub.calls) < MaxPublishes
    /\ SendReady(hub)
    /\ hub' = IF SendStores(hub)
              THEN [hub EXCEPT !.tail = @ + 1,
                               !.stored = Append(@, Len(hub.calls) + 1),
                               !.calls = Append(@, [stored |-> TRUE])]
              ELSE [hub EXCEPT !.calls = Append(@, [stored |-> FALSE])]
    /\ UNCHANGED <<jobVars, routeVars, storeVars, createVars, authVars, importVars>>

\* the stream polls a receiver whose next value was overwritten: recv returns
\* Err(Lagged) and moves the receiver on; filter_map(Result::ok) (sse.rs line
\* 37) drops the error and the stream goes on
SseLagged(r) ==
    /\ hub.rx[r].live
    /\ hub.rx[r].next + SseCapacity < hub.tail
    /\ hub' = [hub EXCEPT !.rx[r].next = LagPos(hub), !.rx[r].lagged = TRUE]
    /\ UNCHANGED <<jobVars, routeVars, storeVars, createVars, authVars, importVars>>

\* the stream polls a receiver whose next value is retained: recv returns it
\* and the stream yields the event (sse.rs lines 37-38)
SseDeliver(r) ==
    /\ hub.rx[r].live
    /\ hub.rx[r].next < hub.tail
    /\ hub.rx[r].next + SseCapacity >= hub.tail
    /\ hub' = [hub EXCEPT !.rx[r].next = NextAfterDeliver(@),
                          !.rx[r].got = Append(@, hub.stored[hub.rx[r].next + 1])]
    /\ UNCHANGED <<jobVars, routeVars, storeVars, createVars, authVars, importVars>>

NextSse ==
    \/ \E r \in Subscribers : SseSubscribe(r)
    \/ \E r \in Subscribers : SseUnsubscribe(r)
    \/ \E event \in SseEvents : send_sse_event(event)
    \/ \E r \in Subscribers : SseLagged(r)
    \/ \E r \in Subscribers : SseDeliver(r)

SpecSse == Init /\ [][NextSse]_vars

\* the stream of every connected client is polled again whenever it has
\* something to yield (the runtime wakes the task of a ready receiver)
SpecSseLive ==
    /\ Init
    /\ [][NextSse]_vars
    /\ \A r \in Subscribers : WF_vars(SseLagged(r)) /\ WF_vars(SseDeliver(r))

(* --------------------------------------------- claims on the job slot *)
\* a request owns a token whose job handle has not been stored yet
HoldsAdmission(p) ==
    tok[p] = "unsubmitted" /\ pc[p] \in {"put_validate", "submit_lock", "submit_store"}

\* the admissions outstanding: unsubmitted tokens, the stored handle, and a
\* poll that has taken the handle and not yet cleared the flag
Admissions ==
    Cardinality({p \in Procs : HoldsAdmission(p)})
    + (IF import_students_job # 0 THEN 1 ELSE 0)
    + Cardinality({p \in Procs : pc[p] = "take_clear"})

\* one step of get_submit_students_job_token by p: granted iff the flag was
\* clear, and a refused call changes neither the flag, the handle nor any token
AcquireStep(p) ==
    PutAcquire(p) =>
        /\ submit_students_job_token' = TRUE
        /\ ~submit_students_job_token =>
              /\ tok'[p] = "unsubmitted"
              /\ \A q \in Procs \ {p} : tok'[q] = tok[q]
        /\ submit_students_job_token =>
              /\ pc'[p] = "put_no_token"
              /\ tok' = tok
              /\ import_students_job' = import_students_job

\* C1: get_submit_students_job_token is one atomic swap: from a Free slot the
\* caller gets the token and every other caller gets None, at most one
\* admission is outstanding in every reachable state, and a refused acquire
\* leaves the flag and the stored handle unchanged.
C1_SingleAdmission ==
    /\ [](Admissions <= 1 /\ (Admissions = 1 => submit_students_job_token))
    /\ [][\A p \in Procs : AcquireStep(p)]_vars

\* C1 witness: one request holds the token while another was refused
C1_Witness ==
    \E p, q \in Procs : HoldsAdmission(p) /\ pc[q] = "put_no_token"

\* C2: at most one bulk-import task is executing at any time.
C2_AtMostOneTaskRunning ==
    Cardinality({t \in Tasks : task[t] = "running"}) <= 1

\* C3: a token dropped without submit_job having completed resets the flag to
\* Free, so that the next get_submit_students_job_token is granted; a token
\* consumed by submit_job leaves the flag as it is when it is dropped.
C3_DropReleasesUnsubmitted ==
    [][\A p \in Procs :
        (tok[p] # "none" /\ tok'[p] = "none") =>
            /\ tok[p] = "unsubmitted" =>
                  ~submit_students_job_token' /\ TokenGranted(submit_students_job_token')
            /\ tok[p] = "submitted" =>
                  submit_students_job_token' = submit_students_job_token]_vars

\* C3 witness: both kinds of drop have happened, and after the last one the
\* slot is still held by the submitted job
C3_Witness ==
    /\ dropped = {"unsubmitted", "submitted"}
    /\ submit_students_job_token
    /\ import_students_job # 0

\* C4: once the submitted job has finished, the poll that takes its handle out
\* of the slot returns its result, and exactly one call does.
C4_FinishedJobReturnedOnce ==
    \A t \in Tasks : cleared[t] => returned[t] = 1

\* C5: a handle is stored in the slot only while the admission flag is set and
\* the admitting token has been consumed by submit_job: never while the slot is
\* Free, never while a request still holds an unsubmitted token.
C5_HandleOnlyAfterSubmit ==
    import_students_job # 0 =>
        /\ submit_students_job_token
        /\ \A p \in Procs : ~HoldsAdmission(p)
        /\ \A p \in Procs : tok[p] = "unsubmitted" => pc[p] = "submit_mark"

\* C5 witness: the handle of a running job is stored and its token is gone
C5_Witness ==
    /\ import_students_job # 0
    /\ task[import_students_job] = "running"
    /\ \A p \in Procs : tok[p] = "none"

\* C6: every handler that mutates persistent state returns the denial of
\* ensure_can before any database write or publish: no write and no publish
\* happens for a session that lacks the capability the mutation needs.
C6_NoWriteWithoutCapability ==
    rstep \in {"written", "published"} =>
        ensure_can(req.user, RouteRequired(req.handler, req.self))

(* ------------------------------------------ claims on the session store *)
\* C7: concurrent create calls persist their sessions under pairwise distinct
\* ids: no create writes over a row another create wrote.
C7_CreatedIdsDistinct ==
    \A c, d \in Clients :
        (c # d /\ created[c] # "none" /\ created[d] # "none") => created[c] # created[d]

\* C8: save(r) followed by load(r.id), with no write to that id in between,
\* returns a record whose data and expiry are equal to r's.
C8_SaveLoadRoundTrip ==
    (last.op = "load" /\ last.io = "none" /\ saved # NoRecord /\ last.arg.id = saved.id) =>
        /\ last.kind = "Some"
        /\ last.ret.data = saved.data
        /\ ExpiryEqual(last.ret.expiry_date, saved.expiry_date)

\* C9: in every session-store operation a backend I/O failure (acquiring the
\* connection or executing the statement) is returned as the Backend variant.
C9_IoFailureIsBackend ==
    last.io # "none" => last.kind = "Backend"

\* what the last call, a load, has to have returned for the row it asked for
LoadAnswersForRow ==
    last.op = "load" =>
        /\ last.kind = "None" => last.arg.id \notin DOMAIN sessions
        /\ (last.io = "none" /\ last.arg.id \notin DOMAIN sessions) => last.kind = "None"
        /\ (last.arg.id \in DOMAIN sessions /\ ~from_slice_ok(sessions[last.arg.id].data)) =>
              /\ last.kind \notin {"None", "Some"}
              /\ last.io = "none" => last.kind = "Decode"

\* C10: load returns Ok(None) exactly when no row with the id exists (the
\* statement having run); for a row whose blob cannot be deserialized it
\* returns a Decode error, never Ok(None) and never a record; and load never
\* changes the store.
C10_LoadNotFoundVsDecode ==
    /\ []LoadAnswersForRow
    /\ [][\A id \in Ids, io \in IoOutcomes : Load(id, io) => sessions' = sessions]_vars

\* C10 witness: a load of an existing row with a corrupt blob returned Decode
C10_Witness ==
    /\ last.op = "load"
    /\ last.io = "none"
    /\ last.kind = "Decode"
    /\ last.arg.id \in DOMAIN sessions
    /\ \E id \in Ids : id \notin DOMAIN sessions

\* C11: save(r) inserts a row when r.id is absent and replaces the data and
\* expiry of the row when r.id is present, every other row staying as it was;
\* a second save(r) leaves the store as the first left it.
C11_SaveUpserts ==
    [][\A record \in Records :
        (last'.op = "save" /\ last'.arg = record /\ Save(record, "none")) =>
            /\ DOMAIN sessions' = DOMAIN sessions \cup {record.id}
            /\ sessions'[record.id] = RowOf(record)
            /\ \A id \in DOMAIN sessions \ {record.id} : sessions'[id] = sessions[id]
            /\ Upsert(sessions', record.id, RowOf(record)) = sessions']_vars

\* C11 witness: a save has replaced the row of an id that was present, beside
\* another row
C11_Witness ==
    /\ last.op = "save"
    /\ last.kind = "Ok"
    /\ last.hit
    /\ sessions[last.arg.id] = RowOf(last.arg)
    /\ DOMAIN sessions = Ids

\* C12: delete_expired removes exactly the rows whose expiry is strictly before
\* the time of the call and leaves every other row as it was; afterwards load
\* of a removed id finds nothing and load of a kept id returns what it
\* returned before.
C12_DeleteExpiredRemovesPast ==
    [][\A now \in NowTimes :
        (last'.op = "delete_expired" /\ DeleteExpired(now, "none")) =>
            /\ DOMAIN sessions' \subseteq DOMAIN sessions
            /\ \A id \in DOMAIN sessions :
                  IF sessions[id].expiry_date.secs < now.secs
                     \/ (sessions[id].expiry_date.secs = now.secs
                         /\ sessions[id].expiry_date.micros < now.micros)
                  THEN /\ id \notin DOMAIN sessions'
                       /\ LoadKind(sessions', id, "none") = "None"
                  ELSE /\ id \in DOMAIN sessions'
                       /\ sessions'[id] = sessions[id]
                       /\ LoadKind(sessions', id, "none") = LoadKind(sessions, id, "none")
                       /\ LoadKind(sessions, id, "none") = "Some" =>
                             LoadRecord(sessions', id) = LoadRecord(sessions, id)]_vars

\* C12 witness: a delete_expired removed a row and kept a row whose expiry is
\* a later instant
C12_Witness ==
    /\ last.op = "delete_expired"
    /\ last.kind = "Ok"
    /\ last.hit
    /\ DOMAIN sessions # {}

\* C13: delete(id) removes the row of that id and leaves every other row as it
\* was; deleting an absent id returns Ok and changes nothing, so a second
\* delete leaves the store as the first left it.
C13_DeleteIdempotent ==
    [][\A id \in Ids :
        (last'.op = "delete" /\ last'.arg.id = id /\ Delete(id, "none")) =>
            /\ last'.kind = "Ok"
            /\ DOMAIN sessions' = DOMAIN sessions \ {id}
            /\ \A other \in DOMAIN sessions \ {id} : sessions'[other] = sessions[other]
            /\ id \notin DOMAIN sessions => sessions' = sessions
            /\ DeleteRow(sessions', id) = sessions']_vars

\* C13 witness: a delete removed a row and left the other row in the table
C13_Witness ==
    /\ last.op = "delete"
    /\ last.kind = "Ok"
    /\ last.hit
    /\ DOMAIN sessions # {}

(* ------------------------------------------- claims on the capabilities *)
\* the capabilities a principal holds: those of its role, none without a user
Held(principal) ==
    IF principal = "None" THEN {} ELSE get_permissions(principal)

\* C14: ensure_can returns Ok exactly when every bit of needed is held; on
\* denial the error carries needed as passed and found equal to what is held
\* (a Student asked for CRUD_EVENTS: found is the Student set, with
\* SIGN_SELF_UP in it, and needed is {CRUD_EVENTS}).
C14_EnsureCanDenial ==
    perm.op = "ensure_can" =>
        /\ perm.ok <=> (\A bit \in perm.needed : bit \in Held(perm.principal))
        /\ ~perm.ok =>
              /\ perm.err.needed = perm.needed
              /\ perm.err.found = Held(perm.principal)
        /\ (perm.principal = "Student" /\ perm.needed = {CRUD_EVENTS}) =>
              /\ ~perm.ok
              /\ perm.err.needed = {CRUD_EVENTS}
              /\ perm.err.found = {VIEW_PHOTOS, SIGN_SELF_UP, VIEW_SENSITIVE_DETAILS}

\* C14 witness: a Student was denied CRUD_EVENTS
C14_Witness ==
    /\ perm.op = "ensure_can"
    /\ perm.principal = "Student"
    /\ perm.needed = {CRUD_EVENTS}
    /\ ~perm.ok
    /\ SIGN_SELF_UP \in perm.err.found

\* C15: the role table is ordered: Admin holds what Staff holds, Staff what
\* Student holds, Student what the plain User holds; so whatever a check
\* grants to a role it grants to every role above it.
C15_RolesOrdered ==
    /\ get_permissions("Staff") \subseteq get_permissions("Admin")
    /\ get_permissions("Student") \subseteq get_permissions("Staff")
    /\ get_permissions("User") \subseteq get_permissions("Student")
    /\ (perm.op = "can" /\ perm.ok) =>
          /\ perm.principal = "User" => can("Student", perm.needed)
          /\ perm.principal = "Student" => can("Staff", perm.needed)
          /\ perm.principal = "Staff" => can("Admin", perm.needed)

\* C15 witness: can granted a Student the whole Student set
C15_Witness ==
    /\ perm.op = "can"
    /\ perm.principal = "Student"
    /\ perm.needed = {VIEW_PHOTOS, SIGN_SELF_UP, VIEW_SENSITIVE_DETAILS}
    /\ perm.ok

\* C16: can is false for every needed set when no user is logged in; with a
\* user it is true exactly when every bit of needed is in get_permissions(user).
C16_CanNeedsUser ==
    perm.op = "can" =>
        /\ perm.principal = "None" => ~perm.ok
        /\ perm.principal # "None" =>
              (perm.ok <=> \A bit \in perm.needed : bit \in get_permissions(perm.principal))

\* C16 witness: can refused the empty set to a request without a user
C16_Witness ==
    /\ perm.op = "can"
    /\ perm.principal = "None"
    /\ perm.needed = {}
    /\ ~perm.ok

(* --------------------------------------- claims on the detached import *)
\* C17: once the import task is spawned, dropping the request at a later await
\* loses neither the task nor its outcome: the handle of every spawned task
\* whose outcome no poll has taken yet is held by the request that is storing
\* it, by the slot, or by the poll that took it.
C17_SpawnedOutcomeKept ==
    \A t \in Tasks :
        (task[t] # "unspawned" /\ ~cleared[t]) =>
            \/ import_students_job = t
            \/ \E p \in Procs : job[p] = t

\* C18: a job over N rows of which k fail finishes with a result that reports
\* the N-k rows created and itemizes the k failures, and the N-k valid
\* students are persisted.
C18_BadRowsDoNotAbortBatch ==
    (imp.pc = "done" /\ imp.result.kind = "Ok") =>
        /\ imp.result.errors = {i \in DOMAIN imp.batch : imp.batch[i] = "bad"}
        /\ imp.result.created = {i \in DOMAIN imp.batch : imp.batch[i] = "good"}
        /\ imp.users = {i \in DOMAIN imp.batch : imp.batch[i] = "good"}

\* C19: the call of take_import_students_job_result that takes a finished
\* handle out of the slot and frees the slot returns Some(outcome), also for a
\* task that ended abnormally.
C19_ClearingPollReturnsOutcome ==
    [][\A p \in Procs :
        (pc[p] = "take_await" /\ TakeAwait(p)) =>
            returned'[job[p]] = returned[job[p]] + 1]_vars

\* C20: put_add_new_students called while the slot is Admitted starts no job,
\* reads no upload and writes nothing: holding no token and no handle, it goes
\* straight on to get_students_import_checker and returns its response.
C20_RefusedPutPollsOnly ==
    /\ [](\A p \in Procs : pc[p] = "put_no_token" => (tok[p] = "none" /\ job[p] = 0))
    /\ [][\A p \in Procs :
            (pc[p] = "put_no_token" /\ pc'[p] # "put_no_token") =>
                /\ pc'[p] = "poll_exists"
                /\ UNCHANGED <<submit_students_job_token, import_students_job, job_lock,
                               task, tok, job>>]_vars

\* C20 witness: a request was refused the token while the job of another
\* request is stored and running
C20_Witness ==
    \E p \in Procs :
        /\ pc[p] = "put_no_token"
        /\ import_students_job # 0
        /\ task[import_students_job] = "running"

(* --------------------------------------------- claims on the SSE hub *)
\* the calls a receiver has been handed, as a set
Got(r) == {hub.rx[r].got[i] : i \in DOMAIN hub.rx[r].got}

\* C21: a receiver that subscribed before send_sse_event(e) receives e, if it
\* does not lag; a receiver that subscribed after the send never receives e.
C21_NoBacklogReplay ==
    \A r \in Subscribers : hub.rx[r].live =>
        /\ \A k \in Got(r) : k > hub.rx[r].since
        /\ (hub.rx[r].next = hub.tail /\ ~hub.rx[r].lagged) =>
              \A k \in DOMAIN hub.calls : k > hub.rx[r].since => k \in Got(r)

\* C21 witness: of two sends, one receiver has been handed both and a receiver
\* that subscribed between them only the second
C21_Witness ==
    \E r, q \in Subscribers :
        /\ hub.rx[r].live /\ hub.rx[r].got = <<1, 2>>
        /\ hub.rx[q].live /\ hub.rx[q].since = 1 /\ hub.rx[q].got = <<2>>

\* C22: send_sse_event never waits and never fails because of a slow
\* receiver: it can always be called, it leaves every receiver as it was, and
\* a receiver that has fallen behind loses its oldest values alone: the step
\* that moves it on changes no other receiver and takes it to the oldest value
\* still retained.
C22_SlowReceiverLosesAlone ==
    /\ [](Len(hub.calls) < MaxPublishes => ENABLED send_sse_event("CrudEvent"))
    /\ [][(Len(hub.calls') = Len(hub.calls) + 1) =>
            /\ hub'.rx = hub.rx
            /\ receiver_count(hub) > 0 => hub'.tail = hub.tail + 1]_vars
    /\ [][\A r \in Subscribers :
            (hub.rx[r].live /\ hub'.rx[r].lagged /\ ~hub.rx[r].lagged) =>
                /\ \A q \in Subscribers \ {r} : hub'.rx[q] = hub.rx[q]
                /\ hub'.calls = hub.calls /\ hub'.tail = hub.tail
                /\ hub'.rx[r].next = hub.tail - SseCapacity
                /\ hub'.rx[r].got = hub.rx[r].got]_vars

\* C22 witness: one receiver has lagged while another was handed every event
C22_Witness ==
    \E r, q \in Subscribers :
        /\ hub.rx[r].live /\ hub.rx[r].lagged
        /\ hub.rx[q].live /\ ~hub.rx[q].lagged /\ hub.rx[q].got = <<1, 2, 3>>

\* C23: what a receiver is handed is a subsequence of the sends made after it
\* subscribed: in send order, nothing twice.
C23_DeliveredInPublishOrder ==
    \A r \in Subscribers :
        /\ \A i \in DOMAIN hub.rx[r].got :
              /\ hub.rx[r].got[i] \in DOMAIN hub.calls
              /\ hub.rx[r].got[i] > hub.rx[r].since
        /\ \A i, j \in DOMAIN hub.rx[r].got :
              i < j => hub.rx[r].got[i] < hub.rx[r].got[j]

\* C23 witness: a receiver that lagged was handed the first and the third send
C23_Witness ==
    \E r \in Subscribers : hub.rx[r].lagged /\ hub.rx[r].got = <<1, 3>>

\* C24: send_sse_event with no live receiver returns, stores nothing and
\* changes no receiver, and no receiver is ever handed that event.
C24_SendWithoutReceivers ==
    /\ [](\A k \in DOMAIN hub.calls :
            ~hub.calls[k].stored => \A r \in Subscribers : k \notin Got(r))
    /\ [][(Len(hub.calls') = Len(hub.calls) + 1 /\ receiver_count(hub) = 0) =>
            /\ hub'.tail = hub.tail
            /\ hub'.stored = hub.stored
            /\ hub'.rx = hub.rx]_vars

\* C24 witness: an event sent to no receiver, then a subscriber that was
\* handed the next one
C24_Witness ==
    /\ Len(hub.calls) >= 2
    /\ ~hub.calls[1].stored
    /\ \E r \in Subscribers : hub.rx[r].live /\ hub.rx[r].got = <<2>>

\* C25: a subscriber that lagged keeps its stream and is still handed the
\* newest event: whenever call k is the newest and was made after r
\* subscribed, r is handed k, unless r disconnects or a newer event is sent.
C25_NewestSurvivesLag ==
    \A r \in Subscribers : \A k \in 1..MaxPublishes :
        (hub.rx[r].live /\ Len(hub.calls) = k /\ hub.rx[r].since < k)
            ~> (~hub.rx[r].live \/ Len(hub.calls) > k \/ k \in Got(r))

\* C25 witness: a receiver that lagged was then handed the newest event
C25_Witness ==
    \E r \in Subscribers :
        /\ hub.rx[r].live /\ hub.rx[r].lagged
        /\ Len(hub.calls) = MaxPublishes
        /\ hub.rx[r].since = 0
        /\ hub.rx[r].got = <<MaxPublishes>>

(* ------------------------------------------ claims on what is published *)
\* C26: a domain event is published exactly when the mutation has succeeded:
\* a handler publishes only after its write returned Ok, and a request of a
\* publishing handler whose write succeeded publishes before it returns.
C26_PublishedIffWritten ==
    [][/\ rstep' = "published" => rstep \in {"written", "published"}
       /\ (rstep = "written" /\ RoutePublishes(req.handler)) =>
             rstep' \in {"written", "published"}]_vars

\* C27: internal_put_new_staff_or_dev creates an Admin account
\* (AddUserKind::Dev) only when the caller holds CRUD_ADMINS, whatever
\* is_staff value the form carries.
C27_DevOnlyByAdmins ==
    (req.handler = "internal_put_new_staff_or_dev" /\ req.made = "Dev") =>
        can(req.user, {CRUD_ADMINS})

\* C28: within the import job the transaction is committed only after the
\* password archive has been uploaded and its download link presigned; when a
\* row insert failed, or the upload or the presign failed, nothing is committed
\* and no student of the batch is persisted.
C28_CommitOnlyAfterArchive ==
    [][/\ (imp.pc = "commit" /\ imp'.pc = "done" /\ imp'.result.kind = "Ok") =>
             (imp.archive /\ imp.errors = {})
       /\ imp'.users # {} => (imp'.archive /\ imp'.errors = {})
       /\ (imp'.pc = "done" /\ (imp'.errors # {} \/ ~imp'.archive)) =>
             (imp'.users = {} /\ imp'.result.created = {})]_vars

C28_Witness ==
    /\ imp.pc = "done"
    /\ imp.archive
    /\ imp.users = DOMAIN imp.batch
    /\ Len(imp.batch) = MaxRows - 1

\* C29: the slot is never wedged: whenever the admission flag is set, a live
\* unsubmitted token exists, or a job handle is stored in the slot, or a poll
\* is between taking the finished handle and clearing the flag.
C29_SlotNeverWedged ==
    submit_students_job_token =>
        \/ \E p \in Procs : tok[p] = "unsubmitted"
        \/ import_students_job # 0
        \/ \E p \in Procs : pc[p] = "take_clear"

C29_Witness ==
    /\ submit_students_job_token
    /\ import_students_job = 0
    /\ \A p \in Procs : tok[p] # "unsubmitted"
    /\ \E p \in Procs : pc[p] = "take_clear"
    /\ \E p \in Procs : pc[p] = "put_no_token"

\* C30: can and ensure_can agree on every input: for every session, with or
\* without a user, and every needed set, the empty set included, can(needed)
\* is true exactly when ensure_can(needed) is Ok.
C30_CanAgreesWithEnsureCan ==
    /\ perm.op = "can" => (perm.ok <=> ensure_can(perm.principal, perm.needed))
    /\ perm.op = "ensure_can" => (perm.ok <=> can(perm.principal, perm.needed))

====
